---------------------------- MODULE Spec2Model ----------------------------
(***************************************************************************)
(* A model of swiss_cv_analyser_streamlit.py: the model resolver           *)
(* (get_best_model), the text-generation client (call_gemini), the PDF     *)
(* text extraction (clean_text, extract_pdf_text), the report              *)
(* post-processor (create_word_report) and the "Run Analysis" handler.     *)
(*                                                                         *)
(* A Python str is a sequence of characters; a character is a one-letter   *)
(* string, or a name for a character that has no letter (NUL, DEL, ...).   *)
(***************************************************************************)
EXTENDS Integers, Sequences, FiniteSets, TLC

VARIABLES
    pass_ok,        \* pass_input == APP_PASSWORD
    cv_file,        \* the uploaded CV, or None
    jd_file,        \* the uploaded job description, or None
    jd_manual,      \* the pasted job description
    pc,             \* where the script is
    ui,             \* what the handler has rendered in this run, in order
    cv_raw,         \* extract_pdf_text(cv_file)
    jd_raw,         \* extract_pdf_text(jd_file), or jd_manual
    cv_summary,     \* run_analysis: the first call's result
    jd_summary,     \* run_analysis: the second call's result
    report,         \* run_analysis's return value
    site,           \* the call site call_gemini returns to
    prompt,         \* call_gemini's argument
    attempt,        \* call_gemini's loop variable
    log,            \* the provider calls and sleeps of this invocation, in order
    result,         \* call_gemini's return value
    escaped,        \* an exception left call_gemini or create_word_report
    run_calls,      \* provider calls issued since the run was triggered
    preview_text,   \* the text given to st.markdown
    candidate_name, \* create_word_report: context['CANDIDATE_NAME']
    category,       \* create_word_report: the category that is ticked
    clean_body,     \* create_word_report: the body laid out in the document
    word_file,      \* create_word_report's return value
    listing,        \* what genai.list_models() did
    model_instance  \* the model get_best_model resolved

vars == <<pass_ok, cv_file, jd_file, jd_manual, pc, ui, cv_raw, jd_raw,
          cv_summary, jd_summary, report, site, prompt, attempt, log, result,
          escaped, run_calls, preview_text, candidate_name, category,
          clean_body, word_file, listing, model_instance>>

widgets == <<pass_ok, cv_file, jd_file, jd_manual>>
frame   == <<site, prompt, attempt, log, result>>
analysis == <<cv_raw, jd_raw, cv_summary, jd_summary, report>>
export  == <<preview_text, candidate_name, category, clean_body, word_file>>
resolver == <<listing, model_instance>>

None == "None"

-----------------------------------------------------------------------------
(* Characters and strings *)

SP     == " "
TAB    == "\t"
NL     == "\n"
NUL    == "NUL"     \* \x00
DEL    == "DEL"     \* \x7f
NBSP   == "NBSP"    \* \xa0
BULLET == "BULLET"  \* U+2022

\* The characters of the model that [\x00-\x1f\x7f-\x9f] matches.
ControlChars == {NUL, TAB, NL, DEL}

\* The characters of the model that \s matches and str.strip() strips.
Whitespace == {SP, TAB, NL, NBSP}

UpperLetters == <<"A","B","C","D","E","F","G","H","I","J","K","L","M",
                  "N","O","P","Q","R","S","T","U","V","W","X","Y","Z">>
LowerLetters == <<"a","b","c","d","e","f","g","h","i","j","k","l","m",
                  "n","o","p","q","r","s","t","u","v","w","x","y","z">>

\* str.lower() and str.upper() of one character.
lower(c) ==
    IF \E i \in 1..26 : UpperLetters[i] = c
    THEN LowerLetters[CHOOSE i \in 1..26 : UpperLetters[i] = c]
    ELSE c

upper(c) ==
    IF \E i \in 1..26 : LowerLetters[i] = c
    THEN UpperLetters[CHOOSE i \in 1..26 : LowerLetters[i] = c]
    ELSE c

str_upper(s) == [i \in 1..Len(s) |-> upper(s[i])]

\* A character as the regex engine compares it: folded under re.IGNORECASE.
Fold(c, ignorecase) == IF ignorecase THEN lower(c) ELSE c

Min(S) == CHOOSE x \in S : \A y \in S : x <= y

Drop(s, n) == SubSeq(s, n + 1, Len(s))

\* The literal lit matches s at position i.
MatchAt(lit, s, i, ignorecase) ==
    /\ i >= 1
    /\ i + Len(lit) - 1 <= Len(s)
    /\ \A k \in 1..Len(lit) : Fold(s[i + k - 1], ignorecase) = Fold(lit[k], ignorecase)

\* The first position >= from where lit matches s, or 0.
Find(lit, s, from, ignorecase) ==
    LET hits == {i \in from..(Len(s) - Len(lit) + 1) : MatchAt(lit, s, i, ignorecase)}
    IN  IF hits = {} THEN 0 ELSE Min(hits)

\* sub in s
Contains(s, sub) == Find(sub, s, 1, FALSE) # 0

\* s.strip()
lstrip(s) ==
    LET keep == {i \in 1..Len(s) : s[i] \notin Whitespace}
    IN  IF keep = {} THEN <<>> ELSE SubSeq(s, Min(keep), Len(s))

rstrip(s) ==
    LET keep == {i \in 1..Len(s) : s[i] \notin Whitespace}
    IN  IF keep = {} THEN <<>> ELSE SubSeq(s, 1, CHOOSE i \in keep : \A j \in keep : j <= i)

\* strip with lstrip in its place
strip_left_only(s) == lstrip(s)

strip(s) == rstrip(lstrip(s))

\* s.replace(old, new): the non-overlapping matches, left to right.
RECURSIVE replace(_, _, _)
replace(s, old, new) ==
    LET i == Find(old, s, 1, FALSE)
    IN  IF i = 0 THEN s
        ELSE SubSeq(s, 1, i - 1) \o new \o replace(Drop(s, i + Len(old) - 1), old, new)


-----------------------------------------------------------------------------
(* get_best_model *)

FLASH        == "models/gemini-1.5-flash"
FLASH_LATEST == "models/gemini-1.5-flash-latest"
PRO          == "models/gemini-pro"

priority == <<FLASH, FLASH_LATEST, PRO>>

DefaultModel == FLASH

\* [m.name for m in genai.list_models() if 'generateContent' in m.supported_generation_methods]
RECURSIVE available_models(_)
available_models(models) ==
    IF models = <<>> THEN <<>>
    ELSE (IF "generateContent" \in Head(models).supported_generation_methods
          THEN <<Head(models).name>> ELSE <<>>) \o available_models(Tail(models))

InSeq(x, s) == \E i \in 1..Len(s) : s[i] = x

\* for p in priority: if p in available_models: return ...; from the k-th on.
\* None when the loop ends without returning.
\* the loop over the listing instead of over the priority list
first_listed(available, k) ==
    LET hits == {i \in 1..Len(available) : InSeq(available[i], priority)}
    IN  IF hits = {} THEN None ELSE available[Min(hits)]

RECURSIVE first_priority(_, _)
first_priority(available, k) ==
    IF k > Len(priority) THEN None
    ELSE IF InSeq(priority[k], available) THEN priority[k]
    ELSE first_priority(available, k + 1)

\* The name of the model get_best_model returns when list_models() did
\* `outcome`: it raised (on the call or while being iterated), or it
\* yielded outcome.models.
get_best_model(outcome) ==
    IF outcome.raises THEN DefaultModel
    ELSE LET available == available_models(outcome.models)
             p == first_priority(available, 1)
         IN  IF p # None THEN p
             ELSE IF available = <<>> THEN DefaultModel  \* IndexError, caught
             ELSE available[1]

-----------------------------------------------------------------------------
(* clean_text, extract_pdf_text *)

\* re.sub(r"[\x00-\x1f\x7f-\x9f]", " ", text)
sub_control(text) == [i \in 1..Len(text) |-> IF text[i] \in ControlChars THEN SP ELSE text[i]]

\* text without its leading whitespace run
RECURSIVE skip_space(_)
skip_space(text) ==
    IF text # <<>> /\ Head(text) \in Whitespace THEN skip_space(Tail(text)) ELSE text

\* re.sub(r"\s+", " ", text)
RECURSIVE sub_spaces(_)
sub_spaces(text) ==
    IF text = <<>> THEN <<>>
    ELSE IF Head(text) \in Whitespace THEN <<SP>> \o sub_spaces(skip_space(text))
    ELSE <<Head(text)>> \o sub_spaces(Tail(text))

\* clean_text without its .strip()
clean_text_unstripped(text) ==
    IF text = <<>> THEN <<>> ELSE sub_spaces(sub_control(text))

clean_text(text) ==
    IF text = <<>> THEN <<>> ELSE strip(sub_spaces(sub_control(text)))

\* for page in pdf.pages: content = page.extract_text(); if content: text += content + " "
\* A page is what its extract_text() returns; <<>> stands for None and for "".
RECURSIVE page_text(_)
page_text(pages) ==
    IF pages = <<>> THEN <<>>
    ELSE (IF Head(pages) # <<>> THEN Head(pages) \o <<SP>> ELSE <<>>)
         \o page_text(Tail(pages))

\* An upload: present (the uploader holds a file), raises (pdfplumber.open or
\* a page's extract_text raises on it), pages.
NoFile == [present |-> FALSE, raises |-> FALSE, pages |-> <<>>]

extract_pdf_text(file) ==
    IF file.raises THEN <<>> ELSE clean_text(page_text(file.pages))

-----------------------------------------------------------------------------
(* create_word_report: the metadata and the body *)

NAME_START == <<"N","A","M","E","_","S","T","A","R","T",":">>
NAME_END   == <<"N","A","M","E","_","E","N","D">>
CATEGORY   == <<"C","A","T","E","G","O","R","Y",":">>
READY      == <<"R","E","A","D","Y">>
IMPROVE    == <<"I","M","P","R","O","V","E">>
MAJOR      == <<"M","A","J","O","R">>
CANDIDATE  == <<"C","A","N","D","I","D","A","T","E">>
Categories == <<READY, IMPROVE, MAJOR>>

NoMatch == <<>>

\* The leftmost match of NAME_START:(.*?)NAME_END under re.DOTALL:
\* <<start of NAME_START:, start of NAME_END>>, or NoMatch.
search_name(text, ignorecase) ==
    LET starts == {i \in 1..Len(text) :
                      /\ MatchAt(NAME_START, text, i, ignorecase)
                      /\ Find(NAME_END, text, i + Len(NAME_START), ignorecase) # 0}
    IN  IF starts = {} THEN NoMatch
        ELSE <<Min(starts), Find(NAME_END, text, Min(starts) + Len(NAME_START), ignorecase)>>

\* The text a match of the name pattern covers: match.group(0).
name_group0(text, m) == SubSeq(text, m[1], m[2] + Len(NAME_END) - 1)

\* match.group(1)
name_group1(text, m) == SubSeq(text, m[1] + Len(NAME_START), m[2] - 1)

\* The first position >= i of text that holds no whitespace (\s*, greedy).
RECURSIVE after_spaces(_, _)
after_spaces(text, i) ==
    IF i <= Len(text) /\ text[i] \in Whitespace THEN after_spaces(text, i + 1) ELSE i

\* (READY|IMPROVE|MAJOR) at position k: the index of the first alternative
\* that matches, or 0.
category_at(text, k) ==
    LET hits == {w \in 1..Len(Categories) : MatchAt(Categories[w], text, k, TRUE)}
    IN  IF hits = {} THEN 0 ELSE Min(hits)

\* The leftmost match of CATEGORY:\s*(READY|IMPROVE|MAJOR) under re.IGNORECASE:
\* <<start of CATEGORY:, start of the word, index of the word>>, or NoMatch.
search_category(text) ==
    LET starts == {i \in 1..Len(text) :
                      /\ MatchAt(CATEGORY, text, i, TRUE)
                      /\ category_at(text, after_spaces(text, i + Len(CATEGORY))) # 0}
    IN  IF starts = {} THEN NoMatch
        ELSE LET i == Min(starts)
                 k == after_spaces(text, i + Len(CATEGORY))
             IN  <<i, k, category_at(text, k)>>

category_group0(text, m) == SubSeq(text, m[1], m[2] + Len(Categories[m[3]]) - 1)

category_group1(text, m) == SubSeq(text, m[2], m[2] + Len(Categories[m[3]]) - 1)

\* candidate_name, as rendered: name_match.group(1).strip() or "CANDIDATE", upper-cased
extract_name(report_text) ==
    LET m == search_name(report_text, TRUE)
    IN  str_upper(IF m # NoMatch THEN strip(name_group1(report_text, m)) ELSE CANDIDATE)

\* category: cat_match.group(1).upper() or "IMPROVE"
extract_category(report_text) ==
    LET m == search_category(report_text)
    IN  IF m # NoMatch THEN str_upper(category_group1(report_text, m)) ELSE IMPROVE

\* re.sub(r"NAME_START:.*?NAME_END", "", text, flags=re.DOTALL)
RECURSIVE sub_name(_)
sub_name(text) ==
    LET m == search_name(text, FALSE)
    IN  IF m = NoMatch THEN text
        ELSE SubSeq(text, 1, m[1] - 1) \o sub_name(Drop(text, m[2] + Len(NAME_END) - 1))

\* The end of the line position i is on: the position of its newline, or Len + 1.
RECURSIVE line_end(_, _)
line_end(text, i) ==
    IF i <= Len(text) /\ text[i] # NL THEN line_end(text, i + 1) ELSE i

\* re.sub(r"CATEGORY:.*", "", text)
RECURSIVE sub_category(_)
sub_category(text) ==
    LET i == Find(CATEGORY, text, 1, FALSE)
    IN  IF i = 0 THEN text
        ELSE SubSeq(text, 1, i - 1)
             \o sub_category(Drop(text, line_end(text, i + Len(CATEGORY)) - 1))

\* The preview: the two substitutions.
strip_preview(text) == sub_category(sub_name(text))

\* clean_body: the two substitutions, then .replace("**", "").replace("* ", "• ")
strip_metadata(report_text) ==
    replace(replace(sub_category(sub_name(report_text)), <<"*","*">>, <<>>),
            <<"*", SP>>, <<BULLET, SP>>)

-----------------------------------------------------------------------------
(* call_gemini *)

\* range(4)
MaxAttemptsOneMore == 3 + 1

MaxAttempts == 3

BackoffSeconds == 4

RATE_LIMIT == <<"4","2","9">>

\* not prompt
PromptIsEmpty(p) == p = <<>>

\* not prompt.strip()
PromptIsBlank(p) == strip(p) = <<>>

\* "42" in str(e)
IsRateLimitLoose(msg) == Contains(msg, <<"4", "2">>)

\* "429" in str(e)
IsRateLimit(msg) == Contains(msg, RATE_LIMIT)

\* The classes `except Exception` catches, among those the provider call raises.
ExceptionSubclasses ==
    {"ResourceExhausted", "ServiceUnavailable", "DeadlineExceeded",
     "PermissionDenied", "ValueError"}

Catches(kind) == kind \in ExceptionSubclasses

\* What the caller gets when the attempt raised a non-rate-limit error, and
\* when the loop ran out.
OnError == <<>>
OnExhausted == <<>>

\* What generate_content(prompt) followed by response.text can do.
ProviderTexts ==
    { <<>>,
      <<SP, "o", "k", NL>>,
      NAME_START \o <<SP, "A", "l", SP>> \o NAME_END \o <<NL>> \o CATEGORY \o <<SP>>
        \o READY \o <<NL, "*", "*", "7", "/", "1", "0", "0", "*", "*">> }

ProviderErrors ==
    { [kind |-> "ResourceExhausted",  msg |-> <<"4","2","9",SP,"q","u","o","t","a">>],
      [kind |-> "ServiceUnavailable", msg |-> <<"5","0","3",SP,"i","d",SP,"1","4","2","9","5">>],
      [kind |-> "DeadlineExceeded",   msg |-> <<"5","0","4",SP,"4","2",SP,"9">>],
      [kind |-> "PermissionDenied",   msg |-> <<"4","0","3">>],
      \* response.text when the response holds no text
      [kind |-> "ValueError",         msg |-> <<"n","o",SP,"t","e","x","t">>] }

CallText(t)  == [ev |-> "call", out |-> "text", kind |-> "", body |-> t, secs |-> 0]
CallRaise(e) == [ev |-> "call", out |-> "raise", kind |-> e.kind, body |-> e.msg, secs |-> 0]
Sleep(n)     == [ev |-> "sleep", out |-> "", kind |-> "", body |-> <<>>, secs |-> n]

\* if not prompt.strip(): return ""; else enter the loop
CallGemini ==
    /\ pc = "call_gemini"
    /\ log' = <<>>
    /\ attempt' = 0
    /\ IF PromptIsBlank(prompt)
       THEN result' = <<>> /\ pc' = "return"
       ELSE result' = result /\ pc' = "generate"
    /\ UNCHANGED <<widgets, ui, analysis, site, prompt, escaped, run_calls, export, resolver>>

\* response = model_instance.generate_content(prompt); return response.text.strip()
GenerateReturns ==
    /\ pc = "generate"
    /\ attempt < MaxAttempts
    /\ \E t \in ProviderTexts :
          /\ log' = Append(log, CallText(t))
          /\ result' = strip(t)
    /\ run_calls' = run_calls + 1
    /\ pc' = "return"
    /\ UNCHANGED <<widgets, ui, analysis, site, prompt, attempt, escaped, export, resolver>>

\* except Exception as e: sleep and continue on "429", else return "";
\* return "" when the loop ends.
GenerateRaises ==
    /\ pc = "generate"
    /\ attempt < MaxAttempts
    /\ run_calls' = run_calls + 1
    /\ \E e \in ProviderErrors :
          IF ~Catches(e.kind)
          THEN /\ log' = Append(log, CallRaise(e))
               /\ escaped' = TRUE
               /\ pc' = "raised"
               /\ UNCHANGED <<attempt, result>>
          ELSE IF IsRateLimit(e.msg)
          THEN /\ log' = log \o <<CallRaise(e), Sleep(BackoffSeconds)>>
               /\ attempt' = attempt + 1
               /\ IF attempt + 1 < MaxAttempts
                  THEN pc' = "generate" /\ result' = result
                  ELSE pc' = "return" /\ result' = OnExhausted
               /\ UNCHANGED escaped
          ELSE /\ log' = Append(log, CallRaise(e))
               /\ result' = OnError
               /\ pc' = "return"
               /\ UNCHANGED <<attempt, escaped>>
    /\ UNCHANGED <<widgets, ui, analysis, site, prompt, export, resolver>>

-----------------------------------------------------------------------------
(* run_analysis *)

PromptCap == 15000

Take(s, n) == SubSeq(s, 1, IF Len(s) < n THEN Len(s) ELSE n)

\* The fixed texts of the three prompts, shortened.
CV_PROMPT    == <<"E","x","t","r","a","c","t",SP,"f","a","c","t","s",":",SP>>
JD_PROMPT    == <<"E","x","t","r","a","c","t",SP,"K","P","I","s",":",SP>>
FINAL_PROMPT == <<NL,SP,"E","v","a","l","u","a","t","e",SP,"C","V",":",SP>>
GENERAL_STANDARD == <<"G","e","n","e","r","a","l",SP,"S","t","a","n","d","a","r","d">>

final_prompt(cv, jd) == FINAL_PROMPT \o cv \o <<NL,SP>> \o jd \o <<NL,SP>>

\* call_gemini's frame is gone once the caller holds its return value.
DropFrame == attempt' = 0 /\ log' = <<>> /\ result' = <<>>

\* cv_summary = call_gemini(...) has returned; jd_summary = call_gemini(...) if jd_text
\* else "General Standard", and then the final call.
AfterCvSummary ==
    /\ pc = "return" /\ site = "cv_summary"
    /\ cv_summary' = result
    /\ IF jd_raw # <<>>
       THEN /\ prompt' = JD_PROMPT \o Take(jd_raw, PromptCap)
            /\ site' = "jd_summary"
            /\ jd_summary' = jd_summary
       ELSE /\ jd_summary' = GENERAL_STANDARD
            /\ prompt' = final_prompt(result, GENERAL_STANDARD)
            /\ site' = "final"
    /\ pc' = "call_gemini"
    /\ DropFrame
    /\ UNCHANGED <<widgets, ui, cv_raw, jd_raw, report, escaped, run_calls, export,
                   resolver>>

AfterJdSummary ==
    /\ pc = "return" /\ site = "jd_summary"
    /\ jd_summary' = result
    /\ prompt' = final_prompt(cv_summary, result)
    /\ site' = "final"
    /\ pc' = "call_gemini"
    /\ DropFrame
    /\ UNCHANGED <<widgets, ui, cv_raw, jd_raw, cv_summary, report, escaped,
                   run_calls, export, resolver>>

\* return call_gemini(final_prompt); report = run_analysis(cv_raw, jd_raw)
AfterFinal ==
    /\ pc = "return" /\ site = "final"
    /\ report' = result
    /\ pc' = "preview"
    /\ site' = "" /\ prompt' = <<>>
    /\ DropFrame
    /\ UNCHANGED <<widgets, ui, cv_raw, jd_raw, cv_summary, jd_summary, escaped,
                   run_calls, export, resolver>>

-----------------------------------------------------------------------------
(* The page: the widgets and the "Run Analysis" handler *)

MaxPages == 2

\* The sequences over S of length at most n.
RECURSIVE SeqsUpTo(_, _)
SeqsUpTo(S, n) ==
    IF n = 0 THEN {<<>>}
    ELSE LET shorter == SeqsUpTo(S, n - 1)
         IN  shorter \cup {Append(q, x) : q \in shorter, x \in S}

\* What a page's extract_text() returns.
PageTexts == { <<>>, <<NUL, SP, NL>>, <<SP, "G", "M", "P", TAB>> }

CvFiles ==
    {[present |-> TRUE, raises |-> FALSE, pages |-> p] : p \in SeqsUpTo(PageTexts, MaxPages)}
    \cup {[present |-> TRUE, raises |-> TRUE, pages |-> <<>>]}

JdFiles ==
    { [present |-> TRUE, raises |-> FALSE, pages |-> << <<"Q","A",NL>> >>],
      [present |-> TRUE, raises |-> TRUE,  pages |-> <<>>] }

JdTexts == { <<>>, <<"K","P","I">> }

\* What the handler and its callees hold, as it is before a run.
ClearRun ==
    /\ cv_raw' = <<>> /\ jd_raw' = <<>>
    /\ cv_summary' = <<>> /\ jd_summary' = <<>> /\ report' = <<>>
    /\ site' = "" /\ prompt' = <<>> /\ attempt' = 0 /\ log' = <<>> /\ result' = <<>>
    /\ run_calls' = 0
    /\ preview_text' = <<>> /\ candidate_name' = <<>> /\ category' = <<>>
    /\ clean_body' = <<>> /\ word_file' = None

\* pass_input = st.sidebar.text_input(...); if pass_input == APP_PASSWORD: ... else: st.info
EnterPassword ==
    /\ pc = "idle"
    /\ \E ok \in BOOLEAN :
          /\ pass_ok' = ok
          /\ ui' = IF ok THEN <<>> ELSE <<"info">>
    /\ UNCHANGED <<cv_file, jd_file, jd_manual, pc, analysis, frame, escaped,
                   run_calls, export, resolver>>

\* cv_file = st.file_uploader("Upload CV (PDF)", type=["pdf"])
UploadCv ==
    /\ pc = "idle" /\ pass_ok
    /\ \E f \in CvFiles \cup {NoFile} : cv_file' = f
    /\ UNCHANGED <<pass_ok, jd_file, jd_manual, pc, ui, analysis, frame, escaped,
                   run_calls, export, resolver>>

\* jd_file = st.file_uploader("Upload JD (PDF)", type=["pdf"])
UploadJd ==
    /\ pc = "idle" /\ pass_ok
    /\ \E f \in JdFiles \cup {NoFile} : jd_file' = f
    /\ UNCHANGED <<pass_ok, cv_file, jd_manual, pc, ui, analysis, frame, escaped,
                   run_calls, export, resolver>>

\* jd_manual = st.text_area("Or paste JD text manually", height=150)
PasteJd ==
    /\ pc = "idle" /\ pass_ok
    /\ \E t \in JdTexts : jd_manual' = t
    /\ UNCHANGED <<pass_ok, cv_file, jd_file, pc, ui, analysis, frame, escaped,
                   run_calls, export, resolver>>

\* if st.button("Run Analysis"): up to the call of run_analysis, and in it up
\* to the first call of call_gemini.
ClickRun ==
    /\ pc = "idle" /\ pass_ok
    /\ IF ~cv_file.present
       THEN /\ ui' = <<"warning">>
            /\ pc' = "done"
            /\ UNCHANGED <<cv_raw, jd_raw, site, prompt>>
       ELSE /\ cv_raw' = extract_pdf_text(cv_file)
            /\ jd_raw' = IF jd_file.present THEN extract_pdf_text(jd_file) ELSE jd_manual
            /\ IF cv_raw' = <<>>
               THEN /\ ui' = <<"error">>
                    /\ pc' = "done"
                    /\ UNCHANGED <<site, prompt>>
               ELSE /\ ui' = <<>>
                    /\ site' = "cv_summary"
                    /\ prompt' = CV_PROMPT \o Take(cv_raw', PromptCap)
                    /\ pc' = "call_gemini"
    /\ UNCHANGED <<widgets, cv_summary, jd_summary, report, attempt, log, result,
                   escaped, run_calls, export, resolver>>

\* The run is over and the user touches the page: the script runs anew, with
\* the button not pressed, and what the last run showed is gone.
RerunScript ==
    /\ pc = "done"
    /\ pc' = "idle"
    /\ ui' = <<>>
    /\ ClearRun
    /\ UNCHANGED <<widgets, escaped, resolver>>

\* st.divider(); st.markdown("### Analysis Preview"); st.markdown(preview_text)
RenderPreview ==
    /\ pc = "preview"
    /\ preview_text' = strip_preview(report)
    /\ ui' = ui \o <<"divider", "heading", "preview">>
    /\ pc' = "export"
    /\ UNCHANGED <<widgets, analysis, frame, escaped, run_calls, candidate_name,
                   category, clean_body, word_file, resolver>>

\* What DocxTemplate("template.docx"), doc.render and doc.save can do.
TemplateOutcomes == {"ok", "load_fails", "render_fails", "save_fails"}

\* create_word_report without its try/except
CreateWordReportUnguarded ==
    /\ pc = "export"
    /\ \E t \in TemplateOutcomes :
          /\ IF t = "load_fails"
             THEN UNCHANGED <<candidate_name, category, clean_body>>
             ELSE /\ candidate_name' = extract_name(report)
                  /\ category' = extract_category(report)
                  /\ clean_body' = strip_metadata(report)
          /\ IF t = "ok"
             THEN word_file' = "bio" /\ pc' = "exported" /\ escaped' = escaped
             ELSE word_file' = word_file /\ pc' = "raised" /\ escaped' = TRUE
    /\ UNCHANGED <<widgets, ui, analysis, frame, run_calls, preview_text, resolver>>

\* word_file = create_word_report(report)
CreateWordReport ==
    /\ pc = "export"
    /\ \E t \in TemplateOutcomes :
          /\ IF t = "load_fails"
             THEN UNCHANGED <<candidate_name, category, clean_body>>
             ELSE /\ candidate_name' = extract_name(report)
                  /\ category' = extract_category(report)
                  /\ clean_body' = strip_metadata(report)
          /\ IF t = "ok"
             THEN word_file' = "bio" /\ ui' = ui
             ELSE word_file' = None /\ ui' = Append(ui, "formatting_error")
    /\ pc' = "exported"
    /\ UNCHANGED <<widgets, analysis, frame, escaped, run_calls, preview_text, resolver>>

\* if word_file: st.download_button(...)
OfferDownload ==
    /\ pc = "exported"
    /\ ui' = IF word_file # None THEN Append(ui, "download") ELSE ui
    /\ pc' = "done"
    /\ UNCHANGED <<widgets, analysis, frame, escaped, run_calls, export, resolver>>

\* The resolver's state when the page is up: list_models() raised, and the
\* default was taken.
ResolvedDefault == [raises |-> TRUE, models |-> <<>>]

Blank ==
    /\ ui = <<>>
    /\ cv_raw = <<>> /\ jd_raw = <<>>
    /\ cv_summary = <<>> /\ jd_summary = <<>> /\ report = <<>>
    /\ site = "" /\ prompt = <<>> /\ attempt = 0 /\ log = <<>> /\ result = <<>>
    /\ escaped = FALSE
    /\ run_calls = 0
    /\ preview_text = <<>> /\ candidate_name = <<>> /\ category = <<>>
    /\ clean_body = <<>> /\ word_file = None

Init ==
    /\ pass_ok = FALSE
    /\ cv_file = NoFile /\ jd_file = NoFile /\ jd_manual = <<>>
    /\ pc = "idle"
    /\ Blank
    /\ listing = ResolvedDefault
    /\ model_instance = get_best_model(ResolvedDefault)

Next ==
    \/ EnterPassword
    \/ UploadCv
    \/ UploadJd
    \/ PasteJd
    \/ ClickRun
    \/ CallGemini
    \/ GenerateReturns
    \/ GenerateRaises
    \/ AfterCvSummary
    \/ AfterJdSummary
    \/ AfterFinal
    \/ RenderPreview
    \/ CreateWordReport
    \/ OfferDownload
    \/ RerunScript

Spec == Init /\ [][Next]_vars

-----------------------------------------------------------------------------
(* call_gemini on its own: any prompt, called again and again *)

Prompts ==
    { <<>>, <<SP>>, <<NL, TAB, SP, NBSP>>, <<"h", "i">>, <<SP, "h", "i", NL>> }

InitGemini ==
    /\ pass_ok = TRUE
    /\ cv_file = NoFile /\ jd_file = NoFile /\ jd_manual = <<>>
    /\ pc = "caller"
    /\ Blank
    /\ listing = ResolvedDefault
    /\ model_instance = get_best_model(ResolvedDefault)

\* call_gemini(p)
Invoke ==
    /\ pc = "caller"
    /\ \E p \in Prompts : prompt' = p
    /\ site' = "caller"
    /\ run_calls' = 0
    /\ pc' = "call_gemini"
    /\ UNCHANGED <<widgets, ui, analysis, attempt, log, result, escaped, export, resolver>>

\* The caller has the return value.
Returned ==
    /\ pc = "return" /\ site = "caller"
    /\ pc' = "caller"
    /\ site' = "" /\ prompt' = <<>>
    /\ DropFrame
    /\ UNCHANGED <<widgets, ui, analysis, escaped, run_calls, export, resolver>>

NextGemini ==
    \/ Invoke
    \/ CallGemini
    \/ GenerateReturns
    \/ GenerateRaises
    \/ Returned

SpecGemini == InitGemini /\ [][NextGemini]_vars

-----------------------------------------------------------------------------
(* get_best_model on its own: any answer of list_models() *)

MaxModels == 2

ModelNames == {FLASH, FLASH_LATEST, PRO, "models/gemini-2.0-flash", "models/embedding-001"}

MethodSets == { {"generateContent"}, {"embedContent"}, {"generateContent", "countTokens"} }

Models == [name : ModelNames, supported_generation_methods : MethodSets]

\* raises: list_models() raised, on the call or after yielding `models`.
ListOutcomes == [raises : BOOLEAN, models : SeqsUpTo(Models, MaxModels)]

InitModel ==
    /\ pass_ok = FALSE
    /\ cv_file = NoFile /\ jd_file = NoFile /\ jd_manual = <<>>
    /\ pc = "boot"
    /\ Blank
    /\ listing = [raises |-> FALSE, models |-> <<>>]
    /\ model_instance = None

\* model_instance = get_best_model()
GetBestModel ==
    /\ pc = "boot"
    /\ \E o \in ListOutcomes :
          /\ listing' = o
          /\ model_instance' = get_best_model(o)
    /\ pc' = "idle"
    /\ UNCHANGED <<widgets, ui, analysis, frame, escaped, run_calls, export>>

NextModel == GetBestModel

SpecModel == InitModel /\ [][NextModel]_vars

-----------------------------------------------------------------------------
(* The preview and create_word_report on their own: any report *)

MaxParts == 3

str_lower(s) == [i \in 1..Len(s) |-> lower(s[i])]

\* The pieces the reports of the model are made of.
Fragments ==
    { NAME_START, NAME_END, CATEGORY, str_lower(NAME_START), str_lower(NAME_END),
      <<SP>> \o READY, <<NL>>, <<"*", "*">>, <<"*", SP>>, <<"A", "l">>,
      <<"C","A","T","E">>, <<"G","O","R","Y",":">> }

RECURSIVE Joined(_)
Joined(n) ==
    IF n = 0 THEN {<<>>}
    ELSE LET shorter == Joined(n - 1)
         IN  shorter \cup {t \o f : t \in shorter, f \in Fragments}

\* report = call_gemini(...): a stripped text
Reports == {strip(t) : t \in Joined(MaxParts)}

\* The handler holds the report of a run on a one-page CV with no job
\* description, each of the three calls answered at once.
ReportCv == [present |-> TRUE, raises |-> FALSE, pages |-> << <<SP, "G", "M", "P", TAB>> >>]

InitReport ==
    /\ pass_ok = TRUE
    /\ cv_file = ReportCv /\ jd_file = NoFile /\ jd_manual = <<>>
    /\ pc = "preview"
    /\ ui = <<>>
    /\ cv_raw = extract_pdf_text(ReportCv) /\ jd_raw = <<>>
    /\ cv_summary = <<"o", "k">> /\ jd_summary = GENERAL_STANDARD
    /\ report \in Reports
    /\ site = "" /\ prompt = <<>> /\ attempt = 0 /\ log = <<>> /\ result = <<>>
    /\ escaped = FALSE
    /\ run_calls = 2
    /\ preview_text = <<>> /\ candidate_name = <<>> /\ category = <<>>
    /\ clean_body = <<>> /\ word_file = None
    /\ listing = ResolvedDefault
    /\ model_instance = get_best_model(ResolvedDefault)

NextReport ==
    \/ RenderPreview
    \/ CreateWordReport
    \/ OfferDownload

SpecReport == InitReport /\ [][NextReport]_vars

-----------------------------------------------------------------------------
(* The claims *)

\* The provider calls and the sleeps among the events l.
Calls(l)  == Cardinality({i \in 1..Len(l) : l[i].ev = "call"})
Sleeps(l) == Cardinality({i \in 1..Len(l) : l[i].ev = "sleep"})

\* The text holds the characters 4, 2, 9 in a row.
Has429(msg) ==
    \E i \in 1..(Len(msg) - 2) : msg[i] = "4" /\ msg[i + 1] = "2" /\ msg[i + 2] = "9"

\* The event is a provider call that raised a rate-limit error.
RateLimited(e) == e.ev = "call" /\ e.out = "raise" /\ Has429(e.body)

AllWhitespace(s) == \A i \in 1..Len(s) : s[i] \in Whitespace

\* r is t without the whitespace at its two ends.
IsTrimOf(r, t) ==
    \E a \in 0..Len(t) : \E b \in a..Len(t) :
        /\ r = SubSeq(t, a + 1, b)
        /\ \A i \in (1..a) \cup ((b + 1)..Len(t)) : t[i] \in Whitespace
        /\ r # <<>> => (r[1] \notin Whitespace /\ r[Len(r)] \notin Whitespace)

\* C1: when an invocation of call_gemini that called the provider returns
\* without having obtained response text (every call raised or gave only
\* whitespace), what it returns is not the empty string.
C1_DiagnosticOnFailure ==
    ( /\ pc = "return"
      /\ log # <<>>
      /\ \A i \in 1..Len(log) :
            log[i].ev = "call" => (log[i].out = "raise" \/ AllWhitespace(log[i].body)) )
    => result # <<>>

\* C2: an invocation makes at most 3 provider calls and lets no exception
\* out; when it has returned and every call raised a rate-limit error, it
\* made exactly 3 calls, each followed by one sleep of the same 4 seconds.
C2_BoundedRetry ==
    /\ Calls(log) <= 3
    /\ ~escaped /\ pc # "raised"
    /\ ( /\ pc = "return"
         /\ log # <<>>
         /\ \A i \in 1..Len(log) : log[i].ev = "call" => RateLimited(log[i]) )
       => /\ Calls(log) = 3
          /\ Len(log) = 6
          /\ \A k \in 1..3 : log[2 * k - 1].ev = "call" /\ log[2 * k] = Sleep(4)

C2_Witness ==
    /\ pc = "return"
    /\ Len(log) = 6
    /\ \A k \in 1..3 : RateLimited(log[2 * k - 1])

\* C3: when a provider call returns text and every call before it raised a
\* rate-limit error, it is the last event of the invocation: with k calls
\* made, k <= 3, there were exactly k - 1 sleeps (retries), the invocation
\* has returned, and its result is that response's text, trimmed.
C3_SuccessAfterRetries ==
    \A i \in 1..Len(log) :
        ( /\ log[i].ev = "call" /\ log[i].out = "text"
          /\ \A j \in 1..(i - 1) : log[j].ev = "call" => RateLimited(log[j]) )
        => /\ pc = "return"
           /\ i = Len(log)
           /\ Calls(log) <= 3
           /\ Sleeps(log) = Calls(log) - 1
           /\ Len(log) = 2 * Calls(log) - 1
           /\ IsTrimOf(result, log[i].body)

C3_Witness ==
    /\ pc = "return"
    /\ Len(log) = 3
    /\ RateLimited(log[1])
    /\ log[3].out = "text"
    /\ result = <<"o", "k">>
    /\ log[3].body # result

\* C4: an invocation whose prompt is empty or all whitespace returns the
\* empty string, with no provider call and no sleep.
C4_BlankPromptShortCircuits ==
    (site = "caller" /\ pc # "call_gemini" /\ AllWhitespace(prompt))
    => /\ pc = "return"
       /\ result = <<>>
       /\ log = <<>>
       /\ run_calls = 0

C4_Witness ==
    /\ pc = "return"
    /\ site = "caller"
    /\ prompt # <<>>
    /\ AllWhitespace(prompt)

\* C5: a provider call that raised an error whose text does not hold "429"
\* is the last event of its invocation, which has returned: no sleep and no
\* call follows it, whatever came before.
C5_NoRetryOnOtherFailure ==
    \A i \in 1..Len(log) :
        (log[i].ev = "call" /\ log[i].out = "raise" /\ ~Has429(log[i].body))
        => (i = Len(log) /\ pc = "return")

C5_Witness ==
    /\ pc = "return"
    /\ Len(log) = 5
    /\ RateLimited(log[1]) /\ RateLimited(log[3])
    /\ log[5].out = "raise" /\ ~Has429(log[5].body)

\* The names list_models() yielded with generateContent among their methods.
Usable ==
    {listing.models[i].name : i \in {j \in 1..Len(listing.models) :
        "generateContent" \in listing.models[j].supported_generation_methods}}

\* C6: get_best_model raises nothing and its result is decided by the
\* listing: the default when the listing raised or holds no usable model,
\* else the first of flash, flash-latest, pro that is usable, else the first
\* usable model of the listing.
C6_BestModel ==
    /\ ~escaped
    /\ pc = "idle" =>
        LET order == <<"models/gemini-1.5-flash", "models/gemini-1.5-flash-latest",
                       "models/gemini-pro">>
        IN  IF listing.raises \/ Usable = {}
            THEN model_instance = "models/gemini-1.5-flash"
            ELSE IF \E k \in 1..3 : order[k] \in Usable
            THEN \E k \in 1..3 :
                    /\ model_instance = order[k]
                    /\ order[k] \in Usable
                    /\ \A j \in 1..(k - 1) : order[j] \notin Usable
            ELSE \E i \in 1..Len(listing.models) :
                    /\ model_instance = listing.models[i].name
                    /\ "generateContent" \in listing.models[i].supported_generation_methods
                    /\ \A j \in 1..(i - 1) :
                          "generateContent" \notin listing.models[j].supported_generation_methods

C6_Witness ==
    /\ pc = "idle"
    /\ ~listing.raises
    /\ Len(listing.models) = 2
    /\ listing.models[1].name = PRO
    /\ listing.models[2].name = FLASH_LATEST
    /\ Usable = {PRO, FLASH_LATEST}
    /\ model_instance = FLASH_LATEST

\* There is no CV, or reading it raises, or its pages hold nothing but
\* whitespace and control characters.
NoUsableCv ==
    \/ ~cv_file.present
    \/ cv_file.raises
    \/ \A p \in 1..Len(cv_file.pages) : \A i \in 1..Len(cv_file.pages[p]) :
          cv_file.pages[p][i] \in ControlChars \cup Whitespace

\* C7: with no CV, or a CV whose extracted text is empty, the script never
\* is in run_analysis or call_gemini, no provider call is issued, and a run
\* that was triggered has ended with the warning or the error on the page.
C7_NoCvNoGeneration ==
    NoUsableCv =>
        /\ pc \in {"idle", "done"}
        /\ run_calls = 0
        /\ pc = "done" => ui \in {<<"warning">>, <<"error">>}

C7_Witness ==
    /\ pc = "done"
    /\ cv_file.present /\ ~cv_file.raises
    /\ \E p \in 1..Len(cv_file.pages) : cv_file.pages[p] # <<>>
    /\ NoUsableCv
    /\ ui = <<"error">>

\* C8: no exception leaves create_word_report; the preview is on the page
\* when create_word_report is attempted, and before anything the export
\* shows; when the export has failed, the page holds the preview and then
\* the formatting error, no file is returned and no download is offered.
C8_ExportFailureKeepsPreview ==
    /\ ~escaped /\ pc # "raised"
    /\ pc = "export" => ui = <<"divider", "heading", "preview">>
    /\ \A i \in 1..Len(ui) :
          ui[i] \in {"formatting_error", "download"} => \E j \in 1..(i - 1) : ui[j] = "preview"
    /\ (pc \in {"exported", "done"} /\ cv_raw # <<>> /\ word_file = None)
       => ui = <<"divider", "heading", "preview", "formatting_error">>
    /\ (pc = "done" /\ cv_raw # <<>>) => InSeq("preview", ui)

C8_Witness ==
    /\ pc = "done"
    /\ report # <<>>
    /\ word_file = None
    /\ ui = <<"divider", "heading", "preview", "formatting_error">>

\* C9: the body create_word_report makes is a fixed point of the step that
\* made it: stripping the metadata of the stripped text changes nothing.
C9_StripIdempotent ==
    pc \in {"exported", "done"} => strip_metadata(clean_body) = clean_body

\* C10: when the name pattern or the category pattern matches the report,
\* the body of the document does not hold the text the pattern matched.
C10_MarkersStripped ==
    (pc = "exported" /\ word_file # None) =>
        LET n == search_name(report, TRUE)
            c == search_category(report)
        IN  /\ n # NoMatch => ~Contains(clean_body, name_group0(report, n))
            /\ c # NoMatch => ~Contains(clean_body, category_group0(report, c))

=============================================================================
